---- MODULE Spec2Model ----
(***************************************************************************)
(* A model of data_fetcher/main.py: get_time_period and the script main(), *)
(* which reads one node's readings from a remote store, keeps the readings *)
(* younger than a window and plots them on the panels of one figure that   *)
(* it saves to a file.                                                     *)
(*                                                                         *)
(* Representation.  A datetime is the tuple <<Y, M, D, h, m, s, us>>.  A   *)
(* timedelta is Python's normalised triple <<days, seconds, microseconds>>.*)
(* A key of the store ('%Y-%m-%d-%H-%M-%S') is the tuple of its            *)
(* '-'-separated numeric fields.  A reading's value is a function from the *)
(* field names it has to numbers.  The data under a node is a record       *)
(* [none, items]: none is TRUE when ref.get() returns None, items is the   *)
(* mapping as the sequence of <<key, value>> pairs in the order in which   *)
(* the returned dict iterates.                                             *)
(***************************************************************************)
EXTENDS Integers, Sequences, FiniteSets, TLC

VARIABLES
    argv,      \* sys.argv
    store,     \* the remote store: node -> data
    pc,        \* position of main()
    err,       \* how the run ended when it did not complete
    fig,       \* pyplot's figure: the axes of the 2 x 2 grid and the current one
    now,       \* line 78
    gateData,  \* what ref.get() returned at line 39
    fetched,   \* what ref.get() returned at line 79
    items,     \* what the for loop of line 79 has still to visit
    key,       \* loop variable
    value,     \* loop variable
    date,      \* line 80
    delta,     \* line 81
    branch,    \* which way the if of line 82 went for the current record
    files,     \* the files written by savefig, by name
    reads,     \* number of ref.get() calls made
    writes,    \* number of changes other clients made to the store
    calls      \* log of the calls made to get_time_period on its own

vars == <<argv, store, pc, err, fig, now, gateData, fetched, items, key, value,
          date, delta, branch, files, reads, writes, calls>>

----------------------------------------------------------------------------
(* Bounds of the model *)

MaxReadings == 2

MaxWrites == 1

MaxCalls == 3

----------------------------------------------------------------------------
(* datetime and timedelta, as lines 10-14 and 80-82 use them *)

IsLeap(y) == (y % 4 = 0) /\ ((y % 100 # 0) \/ (y % 400 = 0))

DaysInMonth(y, m) ==
    IF m = 2 THEN (IF IsLeap(y) THEN 29 ELSE 28)
    ELSE IF m \in {4, 6, 9, 11} THEN 30 ELSE 31

DaysBeforeYear(y) ==
    LET p == y - 1 IN p * 365 + (p \div 4) - (p \div 100) + (p \div 400)

RECURSIVE DaysBeforeMonth(_, _)
DaysBeforeMonth(y, m) ==
    IF m = 1 THEN 0 ELSE DaysBeforeMonth(y, m - 1) + DaysInMonth(y, m - 1)

toordinal(dt) == DaysBeforeYear(dt[1]) + DaysBeforeMonth(dt[1], dt[2]) + dt[3]

SecondOfDay(dt) == dt[6] + dt[5] * 60 + dt[4] * 3600

\* timedelta(days, seconds, microseconds, minutes, hours): the constructor
\* normalises to 0 <= seconds < 86400 and 0 <= microseconds < 1000000.
timedelta(days, seconds, microseconds, minutes, hours) ==
    LET s0 == seconds + minutes * 60 + hours * 3600
        s1 == s0 + (microseconds \div 1000000)
    IN  <<days + (s1 \div 86400), s1 % 86400, microseconds % 1000000>>

\* datetime.__sub__
datetime_sub(a, b) ==
    timedelta(toordinal(a) - toordinal(b), SecondOfDay(a) - SecondOfDay(b),
              a[7] - b[7], 0, 0)

\* timedelta.__lt__: the triples compared in order
timedelta_lt(a, b) ==
    \/ a[1] < b[1]
    \/ a[1] = b[1] /\ a[2] < b[2]
    \/ a[1] = b[1] /\ a[2] = b[2] /\ a[3] < b[3]

\* Whether datetime.strptime(key, '%Y-%m-%d-%H-%M-%S') returns a datetime;
\* it raises ValueError otherwise.
Parsable(k) ==
    /\ Len(k) = 6
    /\ k[1] \in 1..9999
    /\ k[2] \in 1..12
    /\ k[3] \in 1..DaysInMonth(k[1], k[2])
    /\ k[4] \in 0..23
    /\ k[5] \in 0..59
    /\ k[6] \in 0..59

strptime(k) == <<k[1], k[2], k[3], k[4], k[5], k[6], 0>>

\* now.strftime('%Y_%m_%d_%H_%M_%S'): the microseconds are dropped
strftime(dt) == <<dt[1], dt[2], dt[3], dt[4], dt[5], dt[6]>>

----------------------------------------------------------------------------
(* get_time_period, lines 8-17 *)

IntervalNames == {"cycle", "hour", "day", "week", "month"}

get_time_period_month31(literal) ==
    IF literal = "cycle" THEN [error |-> "", period |-> timedelta(0, 0, 0, 10, 0)]
    ELSE IF literal = "hour" THEN [error |-> "", period |-> timedelta(0, 0, 0, 0, 1)]
    ELSE IF literal = "day" THEN [error |-> "", period |-> timedelta(1, 0, 0, 0, 0)]
    ELSE IF literal = "week" THEN [error |-> "", period |-> timedelta(7, 0, 0, 0, 0)]
    ELSE IF literal = "month" THEN [error |-> "", period |-> timedelta(31, 0, 0, 0, 0)]
    ELSE [error |-> "KeyError", period |-> <<>>]

\* intervals[literal]: the duration, or KeyError for a name the dict lacks
get_time_period(literal) ==
    IF literal = "cycle" THEN [error |-> "", period |-> timedelta(0, 0, 0, 10, 0)]
    ELSE IF literal = "hour" THEN [error |-> "", period |-> timedelta(0, 0, 0, 0, 1)]
    ELSE IF literal = "day" THEN [error |-> "", period |-> timedelta(1, 0, 0, 0, 0)]
    ELSE IF literal = "week" THEN [error |-> "", period |-> timedelta(7, 0, 0, 0, 0)]
    ELSE IF literal = "month" THEN [error |-> "", period |-> timedelta(30, 0, 0, 0, 0)]
    ELSE [error |-> "KeyError", period |-> <<>>]

----------------------------------------------------------------------------
(* The inputs *)

HardNode == "98:D3:71:F6:48:88"

OtherNode == "AA:BB:CC:DD:EE:FF"

Nodes == {HardNode, OtherNode}

Quantities == <<"temperature", "pressure", "ch4", "co", "humidity">>

Full1 == [temperature |-> 21, pressure |-> 1013, ch4 |-> 80, co |-> 5, humidity |-> 40]

Full2 == [temperature |-> 22, pressure |-> 1014, ch4 |-> 60, co |-> 6, humidity |-> 41]

NoHumidity == [temperature |-> 23, pressure |-> 1015, ch4 |-> 61, co |-> 7]

NoTemperature == [pressure |-> 1016, ch4 |-> 62, co |-> 8, humidity |-> 42]

\* The values datetime.today() takes in the model
Nows == {<<2024, 1, 1, 0, 5, 0, 0>>, <<2024, 1, 1, 0, 5, 0, 500000>>}

\* The readings a node may hold, as <<key, value>>; their keys differ.
Readings ==
    { <<<<2024, 1, 1, 0, 0, 0>>, Full1>>,          \* 5 minutes old
      <<<<2023, 12, 31, 23, 55, 0>>, Full2>>,      \* 10 minutes old
      <<<<2023, 12, 31, 0, 5, 0>>, Full1>>,        \* one day old
      <<<<2024, 1, 1, 0, 10, 0>>, Full2>>,         \* 5 minutes ahead
      <<<<2023, 11, 1, 12, 0, 0>>, NoHumidity>>,   \* two months old
      <<<<2024, 1, 1, 0, 2, 0>>, NoHumidity>>,     \* 3 minutes old
      <<<<2024, 1, 1, 0, 1, 0>>, NoTemperature>>,  \* 4 minutes old
      <<<<2024, 13, 1, 0, 0, 0>>, Full1>> }        \* no such month

RECURSIVE Orderings(_, _)
\* The sequences of at most n distinct elements of S
Orderings(S, n) ==
    IF n = 0 THEN {<<>>}
    ELSE {<<>>} \cup { <<x>> \o t : x \in S, t \in Orderings(S, n - 1) }

NoRepeat(s) == \A i, j \in 1..Len(s) : i # j => s[i] # s[j]

NoData == [none |-> TRUE, items |-> <<>>]

\* What the store may hold under a node: nothing, or a non-empty mapping
Contents ==
    {NoData} \cup
    { [none |-> FALSE, items |-> s] :
        s \in { t \in Orderings(Readings, MaxReadings) : t # <<>> /\ NoRepeat(t) } }

\* What another client of the store may leave under the node main reads
Written ==
    { NoData,
      [none |-> FALSE, items |-> << <<<<2023, 11, 1, 12, 0, 0>>, NoHumidity>> >>],
      [none |-> FALSE, items |-> << <<<<2024, 1, 1, 0, 0, 0>>, Full1>> >>] }

Arguments ==
    { <<"main.py">> } \cup
    { <<"main.py", n>> : n \in Nodes } \cup
    { <<"main.py", n, i>> : n \in Nodes, i \in {"cycle", "hour", "day"} }

\* The names get_time_period is called with on its own
Literals == IntervalNames \cup {"year", "Day", ""}

----------------------------------------------------------------------------
(* pyplot: the figure of line 44 and the calls made on it *)

NRows == 2

NCols == 2

NoAxes == [made |-> FALSE, title |-> "", ylabel |-> "", hlines |-> {}, lines |-> <<>>]

NoFigure == [axes |-> [i \in 1..(NRows * NCols) |-> NoAxes], cur |-> 0, suptitle |-> <<>>]

\* plt.subplot(2, 2, n) raises ValueError unless 1 <= n <= 2 * 2
SubplotOk(n) == n \in 1..(NRows * NCols)

\* plt.subplot(2, 2, n): the axes at n, made on the first call, become current
subplot(f, n) == [f EXCEPT !.cur = n, !.axes[n].made = TRUE]

title(f, t) == [f EXCEPT !.axes[f.cur].title = t]

ylabel(f, l) == [f EXCEPT !.axes[f.cur].ylabel = l]

axhline(f, y) == [f EXCEPT !.axes[f.cur].hlines = @ \cup {y}]

\* plt.plot(date, v, 'b-'): one more line, of the single point (date, v)
plot(f, d, v) == [f EXCEPT !.axes[f.cur].lines = Append(@, <<d, v>>)]

CH4Threshold == 75

COThreshold == 1000

\* lines 44-75
PlotSetupFigure ==
    LET f1 == ylabel(title(subplot(NoFigure, 1), "Temperature"), "C")
        f2 == ylabel(title(subplot(f1, 2), "Pressure"), "hPa")
        f3 == ylabel(axhline(title(subplot(f2, 3), "CH4"), CH4Threshold), "ppm")
        f4 == ylabel(axhline(title(subplot(f3, 4), "CO"), COThreshold), "ppm")
        f5 == ylabel(title(subplot(f4, 1), "Humidity"), "%")
    IN  f5

\* The grid position lines 83-96 select before plotting the i-th quantity
PlotIndex(i) == i

\* The source line of the plt.plot call of the i-th quantity
PlotLine(i) == IF i = 1 THEN 85 ELSE 85 + 3 * (i - 1)

NoError == [kind |-> "", line |-> 0, key |-> <<>>, name |-> ""]

RECURSIVE PlotFrom(_, _, _, _, _)
\* lines 83-97 from the i-th quantity on: the figure they leave and the
\* exception that stopped them, if one did
PlotFrom(f, i, k, d, v) ==
    IF i > Len(Quantities) THEN [fig |-> f, err |-> NoError]
    ELSE IF ~SubplotOk(PlotIndex(i))
    THEN [fig |-> f,
          err |-> [kind |-> "ValueError", line |-> PlotLine(i) - 1, key |-> <<>>,
                   name |-> "subplot"]]
    ELSE IF Quantities[i] \notin DOMAIN v
    THEN [fig |-> subplot(f, PlotIndex(i)),
          err |-> [kind |-> "KeyError", line |-> PlotLine(i), key |-> <<>>,
                   name |-> Quantities[i]]]
    ELSE PlotFrom(plot(subplot(f, PlotIndex(i)), d, v[Quantities[i]]), i + 1, k, d, v)

is_recent_inclusive(d, period) == ~timedelta_lt(period, d)

\* line 82: delta < get_time_period('day')
is_recent(d, period) == timedelta_lt(d, period)

----------------------------------------------------------------------------
(* main(), lines 26-103 *)

Init ==
    /\ argv \in Arguments
    /\ store \in [Nodes -> Contents]
    /\ store[OtherNode] \in Written
    /\ pc = "start"
    /\ err = NoError
    /\ fig = NoFigure
    /\ now = <<>>
    /\ gateData = NoData
    /\ fetched = NoData
    /\ items = <<>>
    /\ key = <<>>
    /\ value = <<>>
    /\ date = <<>>
    /\ delta = <<>>
    /\ branch = "none"
    /\ files = <<>>
    /\ reads = 0
    /\ writes = 0
    /\ calls = <<>>

\* lines 28-36.  The module imports neither sys nor firebase_admin, so the
\* names are found only when the namespace main() runs in binds them;
\* otherwise line 28 raises NameError.  With the names bound, the firebase
\* setup of lines 33-36 is the library's and is taken to return.
Start ==
    /\ pc = "start"
    /\ \E bound \in BOOLEAN :
         IF ~bound
         THEN /\ pc' = "raised"
              /\ err' = [kind |-> "NameError", line |-> 28, key |-> <<>>, name |-> "sys"]
         ELSE IF Len(argv) < 3
         THEN /\ pc' = "exited"
              /\ err' = [kind |-> "Usage", line |-> 30, key |-> <<>>, name |-> ""]
         ELSE /\ pc' = "gate"
              /\ err' = err
    /\ UNCHANGED <<argv, store, fig, now, gateData, fetched, items, key, value,
                   date, delta, branch, files, reads, writes, calls>>

\* lines 38-41
Gate ==
    /\ pc = "gate"
    /\ reads' = reads + 1
    /\ gateData' = store[HardNode]
    /\ IF store[HardNode].none
       THEN /\ pc' = "exited"
            /\ err' = [kind |-> "NodeNotFound", line |-> 41, key |-> <<>>,
                       name |-> HardNode]
       ELSE /\ pc' = "plotsetup"
            /\ err' = err
    /\ UNCHANGED <<argv, store, fig, now, fetched, items, key, value, date, delta,
                   branch, files, writes, calls>>

\* lines 44-75
PlotSetup ==
    /\ pc = "plotsetup"
    /\ fig' = PlotSetupFigure
    /\ pc' = "fetch"
    /\ UNCHANGED <<argv, store, err, now, gateData, fetched, items, key, value,
                   date, delta, branch, files, reads, writes, calls>>

\* lines 78-79: now, and the second ref.get() with .items() on what it returns
Fetch ==
    /\ pc = "fetch"
    /\ \E t \in Nows : now' = t
    /\ reads' = reads + 1
    /\ fetched' = store[HardNode]
    /\ IF store[HardNode].none
       THEN /\ pc' = "raised"
            /\ err' = [kind |-> "AttributeError", line |-> 79, key |-> <<>>,
                       name |-> "items"]
            /\ items' = items
       ELSE /\ pc' = "loop"
            /\ err' = err
            /\ items' = store[HardNode].items
    /\ UNCHANGED <<argv, store, fig, gateData, key, value, date, delta, branch,
                   files, writes, calls>>

\* lines 79-81: the next record, its date and its age
LoopHead ==
    /\ pc = "loop"
    /\ branch' = "none"
    /\ IF items = <<>>
       THEN /\ pc' = "render"
            /\ UNCHANGED <<items, key, value, date, delta, err>>
       ELSE /\ key' = Head(items)[1]
            /\ value' = Head(items)[2]
            /\ items' = Tail(items)
            /\ IF Parsable(Head(items)[1])
               THEN /\ date' = strptime(Head(items)[1])
                    /\ delta' = datetime_sub(now, strptime(Head(items)[1]))
                    /\ pc' = "filter"
                    /\ err' = err
               ELSE /\ pc' = "raised"
                    /\ err' = [kind |-> "ValueError", line |-> 80,
                               key |-> Head(items)[1], name |-> "strptime"]
                    /\ UNCHANGED <<date, delta>>
    /\ UNCHANGED <<argv, store, fig, now, gateData, fetched, files, reads, writes,
                   calls>>

\* line 82
Filter ==
    /\ pc = "filter"
    /\ IF is_recent(delta, get_time_period("day").period)
       THEN pc' = "plot" /\ branch' = "taken"
       ELSE pc' = "loop" /\ branch' = "skipped"
    /\ UNCHANGED <<argv, store, err, fig, now, gateData, fetched, items, key, value,
                   date, delta, files, reads, writes, calls>>

\* lines 83-97
Plot ==
    /\ pc = "plot"
    /\ LET r == PlotFrom(fig, 1, key, date, value)
       IN  /\ fig' = r.fig
           /\ err' = r.err
           /\ pc' = IF r.err = NoError THEN "loop" ELSE "raised"
    /\ UNCHANGED <<argv, store, now, gateData, fetched, items, key, value, date,
                   delta, branch, files, reads, writes, calls>>

\* lines 99-103
Render ==
    /\ pc = "render"
    /\ fig' = [fig EXCEPT !.suptitle = <<"day", strftime(now)>>]
    /\ files' = Append(files, strftime(now))
    /\ pc' = "done"
    /\ UNCHANGED <<argv, store, err, now, gateData, fetched, items, key, value,
                   date, delta, branch, reads, writes, calls>>

\* Another client of the store changes what the node holds.  After the last
\* read of the run a change cannot be seen by it.
StoreWrite ==
    /\ pc \in {"start", "gate", "plotsetup", "fetch"}
    /\ writes < MaxWrites
    /\ \E d \in Written :
         /\ d # store[HardNode]
         /\ store' = [store EXCEPT ![HardNode] = d]
    /\ writes' = writes + 1
    /\ UNCHANGED <<argv, pc, err, fig, now, gateData, fetched, items, key, value,
                   date, delta, branch, files, reads, calls>>

Next ==
    \/ Start
    \/ Gate
    \/ PlotSetup
    \/ Fetch
    \/ LoopHead
    \/ Filter
    \/ Plot
    \/ Render
    \/ StoreWrite

Spec == Init /\ [][Next]_vars

----------------------------------------------------------------------------
(* get_time_period called on its own, with any name *)

InitResolve ==
    /\ argv = <<"main.py">>
    /\ store = [n \in Nodes |-> NoData]
    /\ pc = "start"
    /\ err = NoError
    /\ fig = NoFigure
    /\ now = <<>>
    /\ gateData = NoData
    /\ fetched = NoData
    /\ items = <<>>
    /\ key = <<>>
    /\ value = <<>>
    /\ date = <<>>
    /\ delta = <<>>
    /\ branch = "none"
    /\ files = <<>>
    /\ reads = 0
    /\ writes = 0
    /\ calls = <<>>

Resolve ==
    /\ Len(calls) < MaxCalls
    /\ \E literal \in Literals :
         calls' = Append(calls, [literal |-> literal, result |-> get_time_period(literal)])
    /\ UNCHANGED <<argv, store, pc, err, fig, now, gateData, fetched, items, key,
                   value, date, delta, branch, files, reads, writes>>

SpecResolve == InitResolve /\ [][Resolve]_vars

----------------------------------------------------------------------------
(* What the properties below speak of *)

\* Whole seconds from d to n, the microseconds of n aside
Age(n, d) == (toordinal(n) - toordinal(d)) * 86400 + SecondOfDay(n) - SecondOfDay(d)

Titles == <<"Temperature", "Pressure", "CH4", "CO", "Humidity">>

\* The points plotted for the i-th quantity, in the order they were plotted
Series(i) ==
    IF SubplotOk(PlotIndex(i)) THEN fig.axes[PlotIndex(i)].lines ELSE <<>>

Malformed(it) ==
    ~Parsable(it[1]) \/ \E i \in 1..Len(Quantities) : Quantities[i] \notin DOMAIN it[2]

WellFormed(d) == ~d.none /\ \A j \in 1..Len(d.items) : ~Malformed(d.items[j])

Terminal == {"done", "exited", "raised"}

\* The records of the fetched mapping that are younger than one day
Passed == { j \in 1..Len(fetched.items) : Age(now, strptime(fetched.items[j][1])) < 86400 }

----------------------------------------------------------------------------
(* C1, under SpecResolve *)

\* C1: get_time_period returns 10 minutes for cycle, 1 hour for hour, 1 day
\* for day, 7 days for week and 30 days for month, fails (KeyError, returning
\* no duration) for every other name, and changes nothing of the program's
\* state.
C1_ResolveTable ==
    /\ \A i \in 1..Len(calls) :
         LET l == calls[i].literal
             r == calls[i].result
             secs == r.period[1] * 86400 + r.period[2]
         IN  /\ l = "cycle" => r.error = "" /\ secs = 10 * 60 /\ r.period[3] = 0
             /\ l = "hour" => r.error = "" /\ secs = 3600 /\ r.period[3] = 0
             /\ l = "day" => r.error = "" /\ secs = 86400 /\ r.period[3] = 0
             /\ l = "week" => r.error = "" /\ secs = 7 * 86400 /\ r.period[3] = 0
             /\ l = "month" => r.error = "" /\ secs = 30 * 86400 /\ r.period[3] = 0
             /\ l \notin IntervalNames => r.error = "KeyError" /\ r.period = <<>>
    /\ pc = "start" /\ err = NoError /\ fig = NoFigure /\ files = <<>> /\ reads = 0
    /\ store = [n \in Nodes |-> NoData]

\* Every recognised name and an unknown one have been resolved.
C1_Witness ==
    /\ \E i \in 1..Len(calls) : calls[i].literal = "month"
    /\ \E i \in 1..Len(calls) : calls[i].literal = "cycle"
    /\ \E i \in 1..Len(calls) : calls[i].literal = "year"

----------------------------------------------------------------------------
(* C2 to C9, under Spec *)

\* C2: a record is accepted for plotting iff now minus its timestamp is
\* strictly less than the window: a record exactly one window old is
\* rejected, a record dated after now is accepted, the plotting lines are
\* entered only for an accepted record and every point on the figure belongs
\* to a record younger than the window.
C2_FilterStrict ==
    /\ branch # "none" => (branch = "taken" <=> Age(now, date) < 86400)
    /\ pc = "plot" => branch = "taken"
    /\ branch = "skipped" => pc # "plot"
    /\ \A n \in 1..(NRows * NCols) : \A j \in 1..Len(fig.axes[n].lines) :
         Age(now, fig.axes[n].lines[j][1]) < 86400

\* A record exactly one day old has been rejected and then a record dated
\* five minutes after now accepted.
C2_Witness ==
    /\ pc = "plot"
    /\ Len(fetched.items) = 2
    /\ now[7] = 0
    /\ Age(now, strptime(fetched.items[1][1])) = 86400
    /\ key = fetched.items[2][1]
    /\ Age(now, date) < 0

\* C3: the window is the one the INTERVAL argument names: with one reading
\* exactly 10 minutes old, a run with cycle leaves every series empty and a
\* run with hour puts the reading in every series.
C3_IntervalNamed ==
    ( /\ pc \in {"done", "raised"}
      /\ Len(argv) = 3
      /\ WellFormed(fetched)
      /\ Len(fetched.items) = 1
      /\ now[7] = 0
      /\ Age(now, strptime(fetched.items[1][1])) = 10 * 60 )
    => /\ argv[3] = "cycle" => \A i \in 1..Len(Quantities) : Series(i) = <<>>
       /\ argv[3] = "hour" =>
            \A i \in 1..Len(Quantities) :
              Series(i) = << <<strptime(fetched.items[1][1]),
                               fetched.items[1][2][Quantities[i]]>> >>

\* C4: once the pass over a fetched mapping of well-formed records has
\* ended, each of the five series is ascending by timestamp and holds
\* exactly the values of the records that passed the filter.
C4_SortedExact ==
    (pc \in {"render", "done", "raised"} /\ WellFormed(fetched))
    => \A i \in 1..Len(Quantities) :
         /\ \A a, b \in 1..Len(Series(i)) :
              a < b => Age(now, Series(i)[a][1]) >= Age(now, Series(i)[b][1])
         /\ Len(Series(i)) = Cardinality(Passed)
         /\ { Series(i)[a] : a \in 1..Len(Series(i)) }
              = { <<strptime(fetched.items[j][1]), fetched.items[j][2][Quantities[i]]>> :
                    j \in Passed }

\* C5: when the store holds nothing for the node the caller named, the step
\* from the gate ends the run with the not-found message naming that node
\* and no file written.
C5_NotFoundNamesCaller ==
    [][ (pc = "gate" /\ pc' # "gate" /\ store[argv[2]].none)
        => ( /\ pc' = "exited"
             /\ err'.kind = "NodeNotFound"
             /\ err'.name = argv[2]
             /\ files' = <<>> ) ]_vars

\* C6: a run over a fetched mapping with a malformed record ends with an
\* error that names the key of a malformed record, and writes no file.
C6_MalformedAborts ==
    ( /\ pc \in {"done", "raised"}
      /\ ~fetched.none
      /\ \E j \in 1..Len(fetched.items) : Malformed(fetched.items[j]) )
    => /\ pc = "raised"
       /\ files = <<>>
       /\ \E j \in 1..Len(fetched.items) :
            Malformed(fetched.items[j]) /\ err.key = fetched.items[j][1]

\* C7: at most one file is written, and only by a run that is done with
\* every fetched record visited; a run that ended in an error wrote none;
\* and a run with valid arguments whose node has data, all of it
\* well-formed, ends done with exactly one file.
C7_Lifecycle ==
    /\ Len(files) <= 1
    /\ files # <<>> => pc = "done" /\ items = <<>>
    /\ pc \in {"exited", "raised"} => files = <<>>
    /\ ( /\ pc \in Terminal
         /\ Len(argv) = 3
         /\ argv[3] \in IntervalNames
         /\ ~gateData.none
         /\ WellFormed(fetched) )
       => pc = "done" /\ Len(files) = 1

\* C8: the store is read once per run, and the mapping that is filtered is
\* the one that passed the gate.
C8_ReadOnce ==
    /\ reads <= 1
    /\ pc \in {"loop", "filter", "plot", "render", "done"} => fetched = gateData

\* C9: after the setup the figure has five panels, and the panel each
\* quantity is plotted on exists, carries that quantity's title and holds
\* only values of that quantity.
C9_FivePanels ==
    pc \in {"fetch", "loop", "filter", "plot", "render", "done"}
    => /\ Cardinality({ n \in DOMAIN fig.axes : fig.axes[n].made }) = Len(Quantities)
       /\ \A i \in 1..Len(Quantities) :
            /\ SubplotOk(PlotIndex(i))
            /\ fig.axes[PlotIndex(i)].made
            /\ fig.axes[PlotIndex(i)].title = Titles[i]
            /\ \A a \in 1..Len(Series(i)) :
                 \E j \in 1..Len(fetched.items) :
                   /\ Quantities[i] \in DOMAIN fetched.items[j][2]
                   /\ Series(i)[a][2] = fetched.items[j][2][Quantities[i]]

====
